---- MODULE Spec2Model ----
(***************************************************************************)
(* The deployment template builder of constructs-stack.ts: the constructor *)
(* of ConstructsStack, statement by statement, followed by the deployment  *)
(* of the template it produced.                                            *)
(*                                                                         *)
(* A JS object is a function from its property names to their values; a    *)
(* property that was not given is not in the DOMAIN.  An optional scalar   *)
(* (an environment variable) is a sequence of length 0 or 1.               *)
(***************************************************************************)
EXTENDS Integers, Sequences, FiniteSets, TLC

VARIABLES
    VERSION,    \* process.env.VERSION as read when the module is loaded
    subShape,   \* what the ServerlessImageHandler construct creates under the two names
    pc,         \* the statement of the constructor that runs next
    children,   \* ids of the constructs created directly in the stack's scope
    tmpl,       \* the template graph under construction
    prev,       \* <<version, template>> of the synthesis runs that finished earlier
    stack       \* the deployment of the template by the provisioning engine

vars == <<VERSION, subShape, pc, children, tmpl, prev, stack>>

\* The number of synthesis runs that are compared with each other.
MaxBuilds == 2

----------------------------------------------------------------------------
(* Inputs *)

Versions == { <<>>, <<"v5.2.0">>, <<"v6.0.0">> }

ConditionNames == { "DeployDemoUICondition", "EnableCorsCondition" }

ChildKinds == { "CfnCondition", "CfnResource", "absent" }

ConformingShape == [ n \in ConditionNames |-> "CfnCondition" ]

AnyShape == [ ConditionNames -> ChildKinds ]

\* Values a deployer may supply for each parameter; <<>> is "not supplied".
Supplied ==
    [ CorsEnabled        : { <<>>, <<"Yes">>, <<"No">> },
      CorsOrigin         : { <<>>, <<"https://example.com">>, <<"">> },
      SourceBuckets      : { <<>>, <<"my-bucket">>, <<"">> },
      DeployDemoUI       : { <<>>, <<"Yes">>, <<"No">> },
      LogRetentionPeriod : { <<>>, <<"7">>, <<"2">> },
      AutoWebP           : { <<>>, <<"Yes">> } ]

----------------------------------------------------------------------------
(* The parameter declarations *)

corsEnabledProps ==
    [ type          |-> "String",
      description   |-> "Would you like to enable Cross-Origin Resource Sharing (CORS) for the image handler API? Select 'Yes' if so.",
      default       |-> "No",
      allowedValues |-> <<"Yes", "No">> ]

corsOriginProps ==
    [ type        |-> "String",
      description |-> "If you selected 'Yes' above, please specify an origin value here. Supports multiple origins given either as comma-separated string or RegExp.",
      default     |-> "*" ]

\* SourceBuckets declared without its pattern.
sourceBucketsProps_noPattern ==
    [ type        |-> "String",
      description |-> "(Required) List the buckets (comma-separated) within your account that contain original image files. If you plan to use Thumbor or Custom image requests with this solution, the source bucket for those requests will be the first bucket listed in this field.",
      default     |-> "defaultBucket, bucketNo2, bucketNo3, ..." ]

sourceBucketsProps ==
    [ type           |-> "String",
      description    |-> "(Required) List the buckets (comma-separated) within your account that contain original image files. If you plan to use Thumbor or Custom image requests with this solution, the source bucket for those requests will be the first bucket listed in this field.",
      default        |-> "defaultBucket, bucketNo2, bucketNo3, ...",
      allowedPattern |-> ".+" ]

\* DeployDemoUI declared with the other default.
deployDemoUiProps_defaultNo ==
    [ type          |-> "String",
      description   |-> "Would you like to deploy a demo UI to explore the features and capabilities of this solution? This will create an additional Amazon S3 bucket and Amazon CloudFront distribution in your account.",
      default       |-> "No",
      allowedValues |-> <<"Yes", "No">> ]

deployDemoUiProps ==
    [ type          |-> "String",
      description   |-> "Would you like to deploy a demo UI to explore the features and capabilities of this solution? This will create an additional Amazon S3 bucket and Amazon CloudFront distribution in your account.",
      default       |-> "Yes",
      allowedValues |-> <<"Yes", "No">> ]

\* LogRetentionPeriod declared with a default that is not a retention value.
logRetentionPeriodProps_badDefault ==
    [ type          |-> "Number",
      description   |-> "This solution automatically logs events to Amazon CloudWatch. Select the amount of time for CloudWatch logs from this solution to be retained (in days).",
      default       |-> "10",
      allowedValues |-> << "1", "3", "5", "7", "14", "30", "60", "90", "120", "150",
                           "180", "365", "400", "545", "731", "1827", "3653" >> ]

logRetentionPeriodProps ==
    [ type          |-> "Number",
      description   |-> "This solution automatically logs events to Amazon CloudWatch. Select the amount of time for CloudWatch logs from this solution to be retained (in days).",
      default       |-> "1",
      allowedValues |-> << "1", "3", "5", "7", "14", "30", "60", "90", "120", "150",
                           "180", "365", "400", "545", "731", "1827", "3653" >> ]

autoWebPProps ==
    [ type          |-> "String",
      description   |-> "Would you like to enable automatic WebP based on accept headers? Select 'Yes' if so.",
      default       |-> "No",
      allowedValues |-> <<"Yes", "No">> ]

\* The parameters in declaration order: <<construct id, props>>.
DeclaredParameters ==
    << <<"CorsEnabled", corsEnabledProps>>,
       <<"CorsOrigin", corsOriginProps>>,
       <<"SourceBuckets", sourceBucketsProps>>,
       <<"DeployDemoUI", deployDemoUiProps>>,
       <<"LogRetentionPeriod", logRetentionPeriodProps>>,
       <<"AutoWebP", autoWebPProps>> >>

ParameterIds == { DeclaredParameters[i][1] : i \in DOMAIN DeclaredParameters }

----------------------------------------------------------------------------
(* Template options *)

\* A template literal renders an undefined value as the text "undefined".
Interpolate(v) == IF v = <<>> THEN "undefined" ELSE v[1]

\* A description that carries a stamp of the synthesis run.
TemplateDescription_stamped(v) ==
    "(SO0023) - Serverless Image Handler with aws-solutions-constructs: Template version "
        \o Interpolate(v) \o " build " \o <<"1", "2", "3", "4">>[Len(prev) + 1]

TemplateDescription(v) ==
    "(SO0023) - Serverless Image Handler with aws-solutions-constructs: This template deploys and configures a serverless architecture that is optimized for dynamic image manipulation and delivery at low latency and cost. Leverages SharpJS for image processing. Template version "
        \o Interpolate(v)

TemplateFormatVersion == "2010-09-09"

\* logicalId of a parameter declared directly in the stack: its construct id.
ParamLogicalId(t, id) == t.Parameters[id].logicalId

InterfaceMetadata(t) ==
    [ ParameterGroups |->
        << [ Label      |-> [ default |-> "CORS Options" ],
             Parameters |-> << ParamLogicalId(t, "CorsEnabled"), ParamLogicalId(t, "CorsOrigin") >> ],
           [ Label      |-> [ default |-> "Image Sources" ],
             Parameters |-> << ParamLogicalId(t, "SourceBuckets") >> ],
           [ Label      |-> [ default |-> "Demo UI" ],
             Parameters |-> << ParamLogicalId(t, "DeployDemoUI") >> ],
           [ Label      |-> [ default |-> "Event Logging" ],
             Parameters |-> << ParamLogicalId(t, "LogRetentionPeriod") >> ] >> ]

SendMapping == [ AnonymousUsage |-> [ Data |-> "Yes" ] ]

----------------------------------------------------------------------------
(* The nested ServerlessImageHandler construct *)

\* logicalId of an element nested in a construct: derived from its path alone.
NestedLogicalId(scopeId, id) == scopeId \o id

\* The gate each condition of the sub-component stands for.
ConditionExpression(name) ==
    IF name = "DeployDemoUICondition"
    THEN [ Equals |-> << [ Ref |-> "DeployDemoUI" ], "Yes" >> ]
    ELSE [ Equals |-> << [ Ref |-> "CorsEnabled" ], "Yes" >> ]

\* The children the sub-component creates, by name.
SubComponentChildren(shape) ==
    [ n \in { m \in ConditionNames : shape[m] # "absent" } |->
        [ kind      |-> shape[n],
          logicalId |-> NestedLogicalId("ServerlessImageHandler", n) ] ]

\* The Conditions section of the template: the children that are conditions.
SubComponentConditions(shape) ==
    LET kids == SubComponentChildren(shape)
        conds == { n \in DOMAIN kids : kids[n].kind = "CfnCondition" }
    IN  [ l \in { kids[n].logicalId : n \in conds } |->
            ConditionExpression(CHOOSE n \in conds : kids[n].logicalId = l) ]

----------------------------------------------------------------------------
(* The output declarations *)

\* CfnParameter.valueAsString: a token that resolves to a Ref of the parameter.
ValueAsString(t, id) == [ Ref |-> ParamLogicalId(t, id) ]

FnRef(logicalName) == [ Ref |-> logicalName ]

FnSub(body) == [ Sub |-> body ]

apiEndpointProps(t) ==
    [ value       |-> FnSub("https://${ImageHandlerDistribution.DomainName}"),
      description |-> "Link to API endpoint for sending image requests to." ]

\* node.findChild(name) as cdk.CfnCondition: the child as found, its type unchecked.
FindChildAsCondition(t, name) == t.subChildren[name]

\* DemoUrl gated by the other condition of the sub-component.
demoUrlProps_wrongCondition(t) ==
    [ value       |-> FnSub("https://${DemoDistribution.DomainName}/index.html"),
      description |-> "Link to the demo user interface for the solution.",
      condition   |-> FindChildAsCondition(t, "EnableCorsCondition") ]

demoUrlProps(t) ==
    [ value       |-> FnSub("https://${DemoDistribution.DomainName}/index.html"),
      description |-> "Link to the demo user interface for the solution.",
      condition   |-> FindChildAsCondition(t, "DeployDemoUICondition") ]

sourceBucketsOutputProps(t) ==
    [ value       |-> ValueAsString(t, "SourceBuckets"),
      description |-> "Amazon S3 bucket location containing original image files." ]

corsEnabledOutputProps(t) ==
    [ value       |-> ValueAsString(t, "CorsEnabled"),
      description |-> "Indicates whether Cross-Origin Resource Sharing (CORS) has been enabled for the image handler API." ]

\* CorsOriginOutput declared without its condition.
corsOriginOutputProps_ungated(t) ==
    [ value       |-> ValueAsString(t, "CorsOrigin"),
      description |-> "Origin value returned in the Access-Control-Allow-Origin header of image handler API responses." ]

corsOriginOutputProps(t) ==
    [ value       |-> ValueAsString(t, "CorsOrigin"),
      description |-> "Origin value returned in the Access-Control-Allow-Origin header of image handler API responses.",
      condition   |-> FindChildAsCondition(t, "EnableCorsCondition") ]

\* LogRetentionPeriodOutput referring to another parameter.
logRetentionPeriodOutputProps_wrongRef(t) ==
    [ value       |-> FnRef("CorsEnabled"),
      description |-> "Number of days for event logs from Lambda to be retained in CloudWatch." ]

logRetentionPeriodOutputProps(t) ==
    [ value       |-> FnRef("LogRetentionPeriod"),
      description |-> "Number of days for event logs from Lambda to be retained in CloudWatch." ]

----------------------------------------------------------------------------
(* The constructor, one action per statement *)

EmptyTemplate ==
    [ Parameters      |-> <<>>,
      templateOptions |-> <<>>,
      Mappings        |-> <<>>,
      subChildren     |-> <<>>,
      Conditions      |-> <<>>,
      Outputs         |-> <<>> ]

NoStack == [ status |-> "NONE" ]

\* A throw inside the constructor: the build ends without a template.
Throw ==
    /\ pc' = "failed"
    /\ UNCHANGED <<children, tmpl>>

Rest == UNCHANGED <<VERSION, subShape, prev, stack>>

\* super(scope, id, props)
Super ==
    /\ pc = "super"
    /\ pc' = "CorsEnabled"
    /\ UNCHANGED <<children, tmpl>>
    /\ Rest

\* new CfnParameter(this, id, props): the id must be new in the stack's scope.
NewCfnParameter(id, props, next) ==
    /\ pc = id
    /\ IF id \in children
       THEN Throw
       ELSE /\ children' = children \cup {id}
            /\ tmpl' = [tmpl EXCEPT !.Parameters =
                            @ @@ (id :> [ logicalId |-> id, props |-> props ])]
            /\ pc' = next
    /\ Rest

DeclareCorsEnabled == NewCfnParameter("CorsEnabled", corsEnabledProps, "CorsOrigin")

DeclareCorsOrigin == NewCfnParameter("CorsOrigin", corsOriginProps, "SourceBuckets")

DeclareSourceBuckets == NewCfnParameter("SourceBuckets", sourceBucketsProps, "DeployDemoUI")

DeclareDeployDemoUI == NewCfnParameter("DeployDemoUI", deployDemoUiProps, "LogRetentionPeriod")

DeclareLogRetentionPeriod ==
    NewCfnParameter("LogRetentionPeriod", logRetentionPeriodProps, "AutoWebP")

DeclareAutoWebP == NewCfnParameter("AutoWebP", autoWebPProps, "description")

SetTemplateOption(at, key, value, next) ==
    /\ pc = at
    /\ tmpl' = [tmpl EXCEPT !.templateOptions = (key :> value) @@ @]
    /\ pc' = next
    /\ UNCHANGED children
    /\ Rest

SetDescription ==
    SetTemplateOption("description", "description", TemplateDescription(VERSION),
                      "templateFormatVersion")

SetTemplateFormatVersion ==
    SetTemplateOption("templateFormatVersion", "templateFormatVersion",
                      TemplateFormatVersion, "metadata")

SetMetadata ==
    SetTemplateOption("metadata", "metadata",
                      ("AWS::CloudFormation::Interface" :> InterfaceMetadata(tmpl)), "Send")

\* new cdk.CfnMapping(this, 'Send', ...)
DeclareMapping ==
    /\ pc = "Send"
    /\ IF "Send" \in children
       THEN Throw
       ELSE /\ children' = children \cup {"Send"}
            /\ tmpl' = [tmpl EXCEPT !.Mappings = @ @@ ("Send" :> SendMapping)]
            /\ pc' = "ServerlessImageHandler"
    /\ Rest

\* new ServerlessImageHandler(this, 'ServerlessImageHandler', sihProps)
InstantiateSubComponent ==
    /\ pc = "ServerlessImageHandler"
    /\ IF "ServerlessImageHandler" \in children
       THEN Throw
       ELSE /\ children' = children \cup {"ServerlessImageHandler"}
            /\ tmpl' = [tmpl EXCEPT !.subChildren = SubComponentChildren(subShape),
                                    !.Conditions  = SubComponentConditions(subShape)]
            /\ pc' = "ApiEndpoint"
    /\ Rest

\* new cdk.CfnOutput(this, id, props), followed by overrideLogicalId when
\* the statement has one: logicalId is the construct id unless overridden.
NewCfnOutput(id, logicalId, needs, props, next) ==
    /\ pc = id
    /\ IF id \in children \/ ~ (needs \subseteq DOMAIN tmpl.subChildren)
       THEN Throw
       ELSE /\ children' = children \cup {id}
            /\ tmpl' = [tmpl EXCEPT !.Outputs =
                            Append(@, [ id |-> id, logicalId |-> logicalId, props |-> props ])]
            /\ pc' = next
    /\ Rest

DeclareApiEndpoint ==
    NewCfnOutput("ApiEndpoint", "ApiEndpoint", {}, apiEndpointProps(tmpl), "DemoUrl")

DeclareDemoUrl ==
    NewCfnOutput("DemoUrl", "DemoUrl", {"DeployDemoUICondition"},
                 demoUrlProps(tmpl), "SourceBucketsOutput")

DeclareSourceBucketsOutput ==
    NewCfnOutput("SourceBucketsOutput", "SourceBuckets", {},
                 sourceBucketsOutputProps(tmpl), "CorsEnabledOutput")

\* CorsEnabledOutput without overrideLogicalId.
DeclareCorsEnabledOutput_noOverride ==
    NewCfnOutput("CorsEnabledOutput", "CorsEnabledOutput", {},
                 corsEnabledOutputProps(tmpl), "CorsOriginOutput")

DeclareCorsEnabledOutput ==
    NewCfnOutput("CorsEnabledOutput", "CorsEnabled", {},
                 corsEnabledOutputProps(tmpl), "CorsOriginOutput")

DeclareCorsOriginOutput ==
    NewCfnOutput("CorsOriginOutput", "CorsOrigin", {"EnableCorsCondition"},
                 corsOriginOutputProps(tmpl), "LogRetentionPeriodOutput")

DeclareLogRetentionPeriodOutput ==
    NewCfnOutput("LogRetentionPeriodOutput", "LogRetentionPeriod", {},
                 logRetentionPeriodOutputProps(tmpl), "done")

Build ==
    \/ Super
    \/ DeclareCorsEnabled
    \/ DeclareCorsOrigin
    \/ DeclareSourceBuckets
    \/ DeclareDeployDemoUI
    \/ DeclareLogRetentionPeriod
    \/ DeclareAutoWebP
    \/ SetDescription
    \/ SetTemplateFormatVersion
    \/ SetMetadata
    \/ DeclareMapping
    \/ InstantiateSubComponent
    \/ DeclareApiEndpoint
    \/ DeclareDemoUrl
    \/ DeclareSourceBucketsOutput
    \/ DeclareCorsEnabledOutput
    \/ DeclareCorsOriginOutput
    \/ DeclareLogRetentionPeriodOutput

----------------------------------------------------------------------------
(* Deployment of the built template by the provisioning engine *)

Range(f) == { f[x] : x \in DOMAIN f }

\* allowedPattern must match the whole value; ".+" is the only pattern declared.
MatchesPattern(pattern, v) ==
    CASE pattern = ".+" -> Len(v) >= 1

SatisfiesConstraint(props, v) ==
    /\ "allowedValues" \in DOMAIN props => v \in Range(props.allowedValues)
    /\ "allowedPattern" \in DOMAIN props => MatchesPattern(props.allowedPattern, v)

\* The Parameters section: props by logicalId.
TemplateParameters(t) ==
    [ l \in { t.Parameters[id].logicalId : id \in DOMAIN t.Parameters } |->
        t.Parameters[CHOOSE id \in DOMAIN t.Parameters : t.Parameters[id].logicalId = l].props ]

\* An output is rendered with Condition: <logicalId of its condition>.
OutputCondition(o) ==
    IF "condition" \in DOMAIN o.props THEN << o.props.condition.logicalId >> ELSE <<>>

\* The template is well formed: every Ref and every Condition resolves.
ValidTemplate(t) ==
    \A i \in DOMAIN t.Outputs :
        LET o == t.Outputs[i]
        IN  /\ "Ref" \in DOMAIN o.props.value =>
                   o.props.value.Ref \in DOMAIN TemplateParameters(t)
            /\ OutputCondition(o) # <<>> => OutputCondition(o)[1] \in DOMAIN t.Conditions

\* A parameter takes the supplied value, or its default when none is supplied.
EffectiveParameters(t, supplied) ==
    [ l \in DOMAIN TemplateParameters(t) |->
        IF supplied[l] = <<>> THEN TemplateParameters(t)[l].default ELSE supplied[l][1] ]

ValidParameters(t, params) ==
    \A l \in DOMAIN params : SatisfiesConstraint(TemplateParameters(t)[l], params[l])

EvalCondition(expr, params) == params[expr.Equals[1].Ref] = expr.Equals[2]

OutputActive(t, o, params) ==
    OutputCondition(o) = <<>> \/ EvalCondition(t.Conditions[OutputCondition(o)[1]], params)

EvalValue(value, params) ==
    IF "Ref" \in DOMAIN value THEN params[value.Ref] ELSE value.Sub

StackOutputs(t, params) ==
    LET active == { i \in DOMAIN t.Outputs : OutputActive(t, t.Outputs[i], params) }
    IN  [ l \in { t.Outputs[i].logicalId : i \in active } |->
            EvalValue(t.Outputs[CHOOSE i \in active : t.Outputs[i].logicalId = l].props.value,
                      params) ]

Deploy ==
    /\ pc = "done"
    /\ stack.status = "NONE"
    /\ \E supplied \in Supplied :
          LET params == EffectiveParameters(tmpl, supplied)
          IN  IF ValidTemplate(tmpl) /\ ValidParameters(tmpl, params)
              THEN stack' = [ status     |-> "CREATE_COMPLETE",
                              supplied   |-> supplied,
                              parameters |-> params,
                              outputs    |-> StackOutputs(tmpl, params) ]
              ELSE stack' = [ status |-> "REJECTED", supplied |-> supplied ]
    /\ UNCHANGED <<VERSION, subShape, pc, children, tmpl, prev>>

\* Another synthesis invocation: the module is loaded again and the
\* constructor runs on a fresh scope.
Resynth ==
    /\ pc = "done"
    /\ Len(prev) < MaxBuilds - 1
    /\ prev' = Append(prev, [ version |-> VERSION, template |-> tmpl ])
    /\ VERSION' \in Versions
    /\ pc' = "super"
    /\ children' = {}
    /\ tmpl' = EmptyTemplate
    /\ UNCHANGED <<subShape, stack>>

----------------------------------------------------------------------------
(* Specifications *)

InitWith(shapes) ==
    /\ VERSION \in Versions
    /\ subShape \in shapes
    /\ pc = "super"
    /\ children = {}
    /\ tmpl = EmptyTemplate
    /\ prev = <<>>
    /\ stack = NoStack

Init == InitWith({ConformingShape})

InitMismatch == InitWith(AnyShape)

Next == Build \/ Deploy

NextTwice == Build \/ Resynth

\* One synthesis and the deployment of its template.
Spec == Init /\ [][Next]_vars

\* Synthesis invocations one after the other.
SpecTwice == Init /\ [][NextTwice]_vars

\* One synthesis against any sub-component, conforming or not.
SpecMismatch == InitMismatch /\ [][Next]_vars

----------------------------------------------------------------------------
(* Properties *)

OutputsWithId(t, id) == { i \in DOMAIN t.Outputs : t.Outputs[i].id = id }

OutputsNamed(t, l) == { i \in DOMAIN t.Outputs : t.Outputs[i].logicalId = l }

\* The gate a condition of the sub-component evaluates to in the deployed stack.
Gate(name) ==
    EvalCondition(tmpl.Conditions[tmpl.subChildren[name].logicalId], stack.parameters)

Deployed == stack.status = "CREATE_COMPLETE"

\* Output `id` is declared once and its condition is exactly the child `name`.
GatedBy(id, name) ==
    /\ Cardinality(OutputsWithId(tmpl, id)) = 1
    /\ \A i \in OutputsWithId(tmpl, id) :
          /\ "condition" \in DOMAIN tmpl.Outputs[i].props
          /\ tmpl.Outputs[i].props.condition = tmpl.subChildren[name]
          /\ tmpl.Outputs[i].props.condition.kind = "CfnCondition"

\* C1: the DemoUrl output carries the condition DeployDemoUICondition of the
\* sub-component and no other; in a deployed stack it is present exactly when
\* that condition evaluates true.
C1_DemoUrlGated ==
    /\ pc = "done" => GatedBy("DemoUrl", "DeployDemoUICondition")
    /\ Deployed => ("DemoUrl" \in DOMAIN stack.outputs <=> Gate("DeployDemoUICondition"))

C1_Witness ==
    /\ Deployed
    /\ ~ Gate("DeployDemoUICondition")
    /\ "DemoUrl" \notin DOMAIN stack.outputs
    /\ "ApiEndpoint" \in DOMAIN stack.outputs

\* C2: the CorsOriginOutput output carries the condition EnableCorsCondition of
\* the sub-component; in a deployed stack it is absent when that condition
\* evaluates false, and when present its value is the CorsOrigin parameter.
C2_CorsOriginGated ==
    /\ pc = "done" => GatedBy("CorsOriginOutput", "EnableCorsCondition")
    /\ Deployed =>
          /\ ~ Gate("EnableCorsCondition") => "CorsOrigin" \notin DOMAIN stack.outputs
          /\ "CorsOrigin" \in DOMAIN stack.outputs =>
                 stack.outputs["CorsOrigin"] = stack.parameters["CorsOrigin"]

C2_Witness ==
    /\ Deployed
    /\ ~ Gate("EnableCorsCondition")
    /\ "CorsOrigin" \notin DOMAIN stack.outputs
    /\ stack.supplied.CorsOrigin = <<"https://example.com">>

ParameterGroups == tmpl.templateOptions["metadata"]["AWS::CloudFormation::Interface"].ParameterGroups

GroupPlaces(l) ==
    { <<i, j>> \in (DOMAIN ParameterGroups) \X (1..2) :
        j \in DOMAIN ParameterGroups[i].Parameters /\ ParameterGroups[i].Parameters[j] = l }

\* C3: in the built template the four parameter groups, in the order CORS
\* Options, Image Sources, Demo UI, Event Logging, hold every declared
\* parameter exactly once.
C3_GroupsPartitionParameters ==
    pc = "done" =>
        /\ [ i \in DOMAIN ParameterGroups |-> ParameterGroups[i].Label.default ]
              = <<"CORS Options", "Image Sources", "Demo UI", "Event Logging">>
        /\ \A l \in DOMAIN TemplateParameters(tmpl) : Cardinality(GroupPlaces(l)) = 1

Overrides ==
    << <<"SourceBucketsOutput", "SourceBuckets">>,
       <<"CorsEnabledOutput", "CorsEnabled">>,
       <<"CorsOriginOutput", "CorsOrigin">>,
       <<"LogRetentionPeriodOutput", "LogRetentionPeriod">> >>

OutputsOnceAndOverridden ==
    /\ \A i \in DOMAIN tmpl.Outputs :
          /\ OutputsWithId(tmpl, tmpl.Outputs[i].id) = {i}
          /\ OutputsNamed(tmpl, tmpl.Outputs[i].logicalId) = {i}
    /\ \A k \in DOMAIN Overrides :
          /\ \E i \in DOMAIN tmpl.Outputs :
                tmpl.Outputs[i].id = Overrides[k][1] /\ tmpl.Outputs[i].logicalId = Overrides[k][2]
          /\ OutputsNamed(tmpl, Overrides[k][1]) = {}

\* C4 as stated: the built template has five outputs, each present once, the
\* four overridden ones under their overridden names.
C4_FiveOutputs ==
    pc = "done" => Len(tmpl.Outputs) = 5 /\ OutputsOnceAndOverridden

\* C4: the built template has six outputs (ApiEndpoint, DemoUrl, SourceBuckets,
\* CorsEnabled, CorsOrigin, LogRetentionPeriod), each present once, the four
\* overridden ones under their overridden names and never under their
\* construction names.
C4_SixOutputs ==
    pc = "done" =>
        /\ { tmpl.Outputs[i].logicalId : i \in DOMAIN tmpl.Outputs } =
              { "ApiEndpoint", "DemoUrl", "SourceBuckets", "CorsEnabled", "CorsOrigin",
                "LogRetentionPeriod" }
        /\ Len(tmpl.Outputs) = 6
        /\ OutputsOnceAndOverridden

C4_Witness ==
    /\ pc = "done"
    /\ Len(tmpl.Outputs) = 6
    /\ \E i \in DOMAIN tmpl.Outputs :
          tmpl.Outputs[i].id = "CorsEnabledOutput" /\ tmpl.Outputs[i].logicalId = "CorsEnabled"

\* C5: the default of every declared parameter satisfies the parameter's own
\* constraint: it is in the allowed values when there are any, and it matches
\* the allowed pattern when there is one.
C5_DefaultsSatisfyConstraints ==
    \A id \in DOMAIN tmpl.Parameters :
        SatisfiesConstraint(tmpl.Parameters[id].props, tmpl.Parameters[id].props.default)

C5_Witness ==
    /\ pc = "done"
    /\ DOMAIN tmpl.Parameters = ParameterIds
    /\ "allowedPattern" \in DOMAIN tmpl.Parameters["SourceBuckets"].props
    /\ "allowedValues" \in DOMAIN tmpl.Parameters["LogRetentionPeriod"].props

Described(props) ==
    /\ {"type", "description", "default"} \subseteq DOMAIN props
    /\ props.type \in {"String", "Number"}
    /\ Len(props.description) > 0

Constrained(props) ==
    \/ "allowedValues" \in DOMAIN props /\ Len(props.allowedValues) > 0
    \/ "allowedPattern" \in DOMAIN props /\ props.allowedPattern = ".+"

\* C6 as stated: every declared parameter has a type, a description, a default
\* and an allowed-value set or the non-empty-string pattern.
C6_AllConstrained ==
    \A id \in DOMAIN tmpl.Parameters :
        Described(tmpl.Parameters[id].props) /\ Constrained(tmpl.Parameters[id].props)

\* C6: every declared parameter has a name, a type (String or Number), a
\* description and a default; every parameter but CorsOrigin has an
\* allowed-value set or the non-empty-string pattern, and CorsOrigin has neither.
C6_AllButCorsOriginConstrained ==
    /\ pc = "done" => DOMAIN tmpl.Parameters = ParameterIds
    /\ \A id \in DOMAIN tmpl.Parameters :
          /\ tmpl.Parameters[id].logicalId = id
          /\ Described(tmpl.Parameters[id].props)
          /\ Constrained(tmpl.Parameters[id].props) <=> id # "CorsOrigin"

C6_Witness ==
    /\ pc = "done"
    /\ Cardinality(DOMAIN tmpl.Parameters) = 6
    /\ ~ Constrained(tmpl.Parameters["CorsOrigin"].props)
    /\ Constrained(tmpl.Parameters["SourceBuckets"].props)

\* C7: in a deployed stack every supplied parameter value is the parameter's
\* value, the CorsOrigin output is present with the CorsOrigin value when
\* CorsEnabled is "Yes", the DemoUrl output is absent when DeployDemoUI is
\* "No", and the LogRetentionPeriod output is the LogRetentionPeriod value.
C7_OutputsReflectParameters ==
    Deployed =>
        /\ \A l \in DOMAIN stack.parameters :
              stack.supplied[l] # <<>> => stack.parameters[l] = stack.supplied[l][1]
        /\ stack.parameters["CorsEnabled"] = "Yes" =>
              /\ "CorsOrigin" \in DOMAIN stack.outputs
              /\ stack.outputs["CorsOrigin"] = stack.parameters["CorsOrigin"]
        /\ stack.parameters["DeployDemoUI"] = "No" => "DemoUrl" \notin DOMAIN stack.outputs
        /\ "LogRetentionPeriod" \in DOMAIN stack.outputs
        /\ stack.outputs["LogRetentionPeriod"] = stack.parameters["LogRetentionPeriod"]

C7_Witness ==
    /\ Deployed
    /\ stack.supplied = [ CorsEnabled        |-> <<"Yes">>,
                          CorsOrigin         |-> <<"https://example.com">>,
                          SourceBuckets      |-> <<"my-bucket">>,
                          DeployDemoUI       |-> <<"No">>,
                          LogRetentionPeriod |-> <<"7">>,
                          AutoWebP           |-> <<>> ]
    /\ stack.outputs["CorsOrigin"] = "https://example.com"
    /\ "DemoUrl" \notin DOMAIN stack.outputs
    /\ stack.outputs["LogRetentionPeriod"] = "7"

NothingSupplied == \A l \in DOMAIN stack.supplied : stack.supplied[l] = <<>>

\* C8: a deployment that supplies no parameter value succeeds with CorsEnabled
\* "No", SourceBuckets the placeholder, DeployDemoUI "Yes", LogRetentionPeriod
\* "1" and AutoWebP "No".
C8_DefaultsWhenOmitted ==
    (stack.status # "NONE" /\ NothingSupplied) =>
        /\ Deployed
        /\ stack.parameters["CorsEnabled"] = "No"
        /\ stack.parameters["SourceBuckets"] = "defaultBucket, bucketNo2, bucketNo3, ..."
        /\ stack.parameters["DeployDemoUI"] = "Yes"
        /\ stack.parameters["LogRetentionPeriod"] = "1"
        /\ stack.parameters["AutoWebP"] = "No"

C8_Witness ==
    /\ Deployed
    /\ NothingSupplied
    /\ stack.parameters["DeployDemoUI"] = "Yes"
    /\ "DemoUrl" \in DOMAIN stack.outputs

\* The synthesis runs that produced a template.
Finished ==
    IF pc = "done" THEN Append(prev, [ version |-> VERSION, template |-> tmpl ]) ELSE prev

C10_LookupValidated ==
    /\ (\E n \in ConditionNames : subShape[n] = "absent") => pc # "done"
    /\ \A i \in DOMAIN tmpl.Outputs :
          "condition" \in DOMAIN tmpl.Outputs[i].props =>
              tmpl.Outputs[i].props.condition.kind = "CfnCondition"

====
